---- MODULE Spec2Model ----
(***************************************************************************)
(* Model of src/src/annotationprocessing.js: the assembly of highlight     *)
(* records from annotations (assembleHighlights) and the word-offset       *)
(* resolution it rests on (SeparatorRegex, wordOffsetToIndex,              *)
(* htmlToMarkdownWithPlaceholders, withoutPlaceholders, getSourceInfo).    *)
(*                                                                         *)
(* JavaScript strings are TLA+ strings; Len, SubSeq and \o act on them.    *)
(* The module text is ASCII, so four characters of the source stand for    *)
(* the non-ASCII ones: Galaxy for U+1F30C (the separator glyph), Foot for  *)
(* U+1F9B6 (the footnote placeholder), EmDash for U+2014 and EnDash for    *)
(* U+2013.  SeparatorRegex has no u flag, so its class holds the two       *)
(* surrogates of U+1F30C; Foot (U+1F9B6) shares neither, and the inputs    *)
(* hold no other astral character, so the glyph acts as one character.     *)
(*                                                                         *)
(* Two specifications:                                                     *)
(*   Spec         assembleHighlights over a batch of annotations;          *)
(*   SpecResolve  the resolution of one span on one block (lines 40-53),   *)
(*                the loop of wordOffsetToIndex taken one iteration at a   *)
(*                time.                                                    *)
(***************************************************************************)
EXTENDS Integers, Sequences, FiniteSets, TLC

VARIABLES
    \* ---- Spec: assembleHighlights(annotations, contents)
    annotations,    \* the argument: a sequence of annotation records
    contents,       \* the argument: a function from URI to content fragment
    bpc,            \* "map" | "done" | "idle"
    k,              \* number of annotations the map callback has handled
    mapped,         \* the array annotations.map(...) has built so far
    out,            \* the value assembleHighlights returns
    escaped,        \* TRUE when an exception left assembleHighlights
    \* ---- SpecResolve: one (part, i) of the highlightMd map, lines 40-53
    html,           \* the markup of the block
    h,              \* the highlight span: [uri, startOffset, endOffset]
    md,             \* part: the converted block
    parts,          \* part.split(SeparatorRegex)
    rpc,            \* "convert" | "split" | "start" | "end" | "slice" | "done" | "idle"
    offset,         \* wordOffsetToIndex: let offset
    index,          \* wordOffsetToIndex: let index
    inLink,         \* wordOffsetToIndex: let inLink
    counts,         \* history: the value of offset after each iteration of the running loop
    startIndex,     \* line 47
    endIndex,       \* line 48
    highlightPart   \* lines 49-53: the slice, joined, stripped and trimmed

bvars == <<annotations, contents, bpc, k, mapped, out, escaped>>
rvars == <<html, h, md, parts, rpc, offset, index, inLink, counts,
           startIndex, endIndex, highlightPart>>
vars == <<annotations, contents, bpc, k, mapped, out, escaped,
          html, h, md, parts, rpc, offset, index, inLink, counts,
          startIndex, endIndex, highlightPart>>

----------------------------------------------------------------------------
(* Characters and strings *)

Galaxy == "@"
Foot == "^"
EmDash == "~"
EnDash == "_"
Newline == "\n"

\* a string-valued slot that holds no value (annotationId, uri); it reads
\* "undefined" when concatenated, as in JavaScript
Undefined == "undefined"
\* an object-valued slot that holds no value (source, the callback's result)
UndefinedObj == [undefined |-> TRUE]

CharAt(s, i) == SubSeq(s, i, i)

\* the class \s, over the characters of the inputs
WhiteSpace == {" ", Newline}

\* the character class of SeparatorRegex
SeparatorClass == {Galaxy, EmDash, EnDash, "-"} \cup WhiteSpace

\* String.prototype.includes
includes(s, sub) ==
    \E i \in 1..(Len(s) - Len(sub) + 1) : SubSeq(s, i, i + Len(sub) - 1) = sub

\* String.prototype.startsWith
startsWith(s, prefix) ==
    Len(prefix) <= Len(s) /\ SubSeq(s, 1, Len(prefix)) = prefix

RECURSIVE join(_, _)
\* Array.prototype.join
join(seq, sep) ==
    IF seq = <<>> THEN ""
    ELSE IF Len(seq) = 1 THEN seq[1]
    ELSE seq[1] \o sep \o join(Tail(seq), sep)

RECURSIVE without(_, _)
\* s.replaceAll(c, '') for a one-character c
without(s, c) ==
    IF s = "" THEN ""
    ELSE (IF CharAt(s, 1) = c THEN "" ELSE CharAt(s, 1))
             \o without(SubSeq(s, 2, Len(s)), c)

\* String.prototype.trim
trim(s) ==
    LET keep == {i \in 1..Len(s) : CharAt(s, i) \notin WhiteSpace}
    IN  IF keep = {} THEN ""
        ELSE SubSeq(s, CHOOSE i \in keep : \A j \in keep : i <= j,
                       CHOOSE i \in keep : \A j \in keep : j <= i)

\* the last position of the run of characters that starts at i and is in the
\* class (sep = TRUE) or out of it (sep = FALSE); i - 1 when the run is empty
RunEnd(s, i, sep) ==
    LET stop == {j \in i..Len(s) : (CharAt(s, j) \in SeparatorClass) # sep}
    IN  IF stop = {} THEN Len(s)
        ELSE (CHOOSE j \in stop : \A j2 \in stop : j <= j2) - 1

RECURSIVE splitFrom(_, _)
splitFrom(s, i) ==
    LET w == RunEnd(s, i, FALSE)
        word == SubSeq(s, i, w)
    IN  IF w = Len(s) THEN <<word>>
        ELSE LET e == RunEnd(s, w + 1, TRUE)
             IN  <<word, SubSeq(s, w + 1, e)>> \o splitFrom(s, e + 1)

\* part.split(SeparatorRegex): the pieces between the matches of ([...]+) with
\* the matches themselves (the capturing group); a piece is the empty string
\* where the text begins or ends with a match
split(s) == splitFrom(s, 1)

\* p.match(SeparatorRegex)?.[0] === p : p is one whole match of the regex
isSeparator(p) ==
    p # "" /\ \A i \in 1..Len(p) : CharAt(p, i) \in SeparatorClass

----------------------------------------------------------------------------
(* Markup: a block's markup is a paragraph, given as the sequence of its     *)
(* inline child nodes                                                        *)

Text(t) == [tag |-> "#text", text |-> t]
\* href = "" stands for an <a> without href (getAttribute gives null)
A(href, content) == [tag |-> "a", href |-> href, content |-> content]
Sup == [tag |-> "sup"]

StudyRoot == "https://www.churchofjesuschrist.org/study"

\* the rule 'no-sups'
noSups == Galaxy \o Foot \o Galaxy

\* the rule 'add-fake-word-separator-after-links': replacement(content, node)
addFakeWordSeparatorAfterLinks(content, rawHref) ==
    LET fullHref == IF startsWith(rawHref, "/") THEN StudyRoot \o rawHref
                    ELSE IF startsWith(rawHref, "#") THEN ""
                    ELSE rawHref
        mdLink == IF fullHref = "" THEN content
                  ELSE "[" \o content \o "](" \o fullHref \o ")"
    IN  Galaxy \o mdLink \o Galaxy

\* turndown(html, rules, options) of turndownwrapper.js: each child node is
\* replaced by its rule (text is kept as it is), the replacements are
\* concatenated and the result is trimmed
turndown(nodes) ==
    trim(join([i \in 1..Len(nodes) |->
                  IF nodes[i].tag = "a"
                  THEN addFakeWordSeparatorAfterLinks(nodes[i].content, nodes[i].href)
                  ELSE IF nodes[i].tag = "sup" THEN noSups
                  ELSE nodes[i].text], ""))

htmlToMarkdownWithPlaceholders(nodes) == turndown(nodes)

withoutPlaceholders(s) == without(without(s, Foot), Galaxy)

----------------------------------------------------------------------------
(* Word offsets *)

\* a JavaScript number that is a count or Number.POSITIVE_INFINITY
Finite(n) == [finite |-> TRUE, n |-> n]
PositiveInfinity == [finite |-> FALSE, n |-> 0]
LessThan(n, w) == ~w.finite \/ n < w.n

Max(a, b) == IF a >= b THEN a ELSE b

\* the start offset taken as it is stored, without the step to 0-indexed
startOffsetNotShifted(span) == Finite(Max(span.startOffset, 0))

\* line 43
startOffsetOf(span) == Finite(Max(span.startOffset - 1, 0))
\* line 44
endOffsetOf(span) ==
    IF span.endOffset = -1 THEN PositiveInfinity ELSE Finite(span.endOffset)

\* wordOffsetToIndex: the locals as they are declared (lines 135-137)
loopInit == [offset |-> 0, index |-> 0, inLink |-> FALSE]

\* line 138
loopTest(st, wordsAndSeparators, wordOffset) ==
    LessThan(st.offset, wordOffset) /\ st.index < Len(wordsAndSeparators)

\* an iteration that never notes that a link has opened
loopBodyWithoutLinkState(st, wordsAndSeparators) ==
    LET p == wordsAndSeparators[st.index + 1]
    IN  [offset |-> IF ~isSeparator(p) THEN st.offset + 1 ELSE st.offset,
         index |-> st.index + 1,
         inLink |-> FALSE]

\* lines 139-150: one iteration
loopBody(st, wordsAndSeparators) ==
    LET p == wordsAndSeparators[st.index + 1]
        counted == ~st.inLink /\ ~isSeparator(p)
        opened == IF includes(p, "](") THEN TRUE ELSE st.inLink
        closed == IF opened /\ includes(p, ")") THEN FALSE ELSE opened
    IN  [offset |-> IF counted THEN st.offset + 1 ELSE st.offset,
         index |-> st.index + 1,
         inLink |-> closed]

RECURSIVE runLoop(_, _, _)
runLoop(st, wordsAndSeparators, wordOffset) ==
    IF loopTest(st, wordsAndSeparators, wordOffset)
    THEN runLoop(loopBody(st, wordsAndSeparators), wordsAndSeparators, wordOffset)
    ELSE st

wordOffsetToIndex(wordsAndSeparators, wordOffset) ==
    runLoop(loopInit, wordsAndSeparators, wordOffset).index

\* Array.prototype.slice(start, end) for 0 <= start, end <= length
slice(seq, start, end) == SubSeq(seq, start + 1, end)

\* lines 49, 52, 53: the text one part contributes to highlightMd
extract(tokens, start, end) ==
    trim(withoutPlaceholders(join(slice(tokens, start, end), "")))

\* lines 41-53 for one part and its span
highlightOf(part, span) ==
    LET tokens == split(part)
    IN  extract(tokens,
                wordOffsetToIndex(tokens, startOffsetOf(span)),
                wordOffsetToIndex(tokens, endOffsetOf(span)))

----------------------------------------------------------------------------
(* SpecResolve: one span resolved on one block *)

MaxNodes == 2
MaxOffset == 5

Nodes ==
    { Text("ab cd"), Text("p-q~r_s"), Text(" x "),
      A("/x", "k"), A("/x-y", "k"), A("/x", "brown fox"), A("#n", "note"),
      Sup }

\* the block of the scenario of section 8 of the specification
ScenarioBlock == <<Text("The quick "), A("/x", "brown fox"), Text(" jumps")>>

Blocks == {ScenarioBlock} \cup UNION {[1..n -> Nodes] : n \in 1..MaxNodes}

OffsetValues == {-1} \cup 1..MaxOffset

Spans == [uri : {"/u"}, startOffset : OffsetValues, endOffset : OffsetValues]

BatchIdle ==
    /\ annotations = <<>> /\ contents = <<>> /\ bpc = "idle" /\ k = 0
    /\ mapped = <<>> /\ out = <<>> /\ escaped = FALSE

InitResolve ==
    /\ BatchIdle
    /\ html \in Blocks
    /\ h \in Spans
    /\ rpc = "convert"
    /\ md = ""
    /\ parts = <<>>
    /\ offset = 0 /\ index = 0 /\ inLink = FALSE /\ counts = <<>>
    /\ startIndex = 0 /\ endIndex = 0
    /\ highlightPart = ""

\* line 36
Convert ==
    /\ rpc = "convert"
    /\ md' = htmlToMarkdownWithPlaceholders(html)
    /\ rpc' = "split"
    /\ UNCHANGED <<html, h, parts, offset, index, inLink, counts,
                   startIndex, endIndex, highlightPart>>
    /\ UNCHANGED bvars

\* line 46, then the call of line 47 enters wordOffsetToIndex
Split ==
    /\ rpc = "split"
    /\ parts' = split(md)
    /\ offset' = loopInit.offset /\ index' = loopInit.index
    /\ inLink' = loopInit.inLink /\ counts' = <<>>
    /\ rpc' = "start"
    /\ UNCHANGED <<html, h, md, startIndex, endIndex, highlightPart>>
    /\ UNCHANGED bvars

\* the wordOffset argument of the running call
wordOffset == IF rpc = "start" THEN startOffsetOf(h) ELSE endOffsetOf(h)

loopState == [offset |-> offset, index |-> index, inLink |-> inLink]

\* lines 138-151: one iteration of the loop
Iterate ==
    /\ rpc \in {"start", "end"}
    /\ loopTest(loopState, parts, wordOffset)
    /\ LET st == loopBody(loopState, parts)
       IN  /\ offset' = st.offset
           /\ index' = st.index
           /\ inLink' = st.inLink
           /\ counts' = Append(counts, st.offset)
    /\ UNCHANGED <<html, h, md, parts, rpc, startIndex, endIndex, highlightPart>>
    /\ UNCHANGED bvars

\* line 152 of the call of line 47; the call of line 48 enters
ReturnStart ==
    /\ rpc = "start"
    /\ ~loopTest(loopState, parts, wordOffset)
    /\ startIndex' = index
    /\ offset' = loopInit.offset /\ index' = loopInit.index
    /\ inLink' = loopInit.inLink /\ counts' = <<>>
    /\ rpc' = "end"
    /\ UNCHANGED <<html, h, md, parts, endIndex, highlightPart>>
    /\ UNCHANGED bvars

\* line 152 of the call of line 48
ReturnEnd ==
    /\ rpc = "end"
    /\ ~loopTest(loopState, parts, wordOffset)
    /\ endIndex' = index
    /\ rpc' = "slice"
    /\ UNCHANGED <<html, h, md, parts, offset, index, inLink, counts,
                   startIndex, highlightPart>>
    /\ UNCHANGED bvars

\* lines 49-53
Slice ==
    /\ rpc = "slice"
    /\ highlightPart' = extract(parts, startIndex, endIndex)
    /\ rpc' = "done"
    /\ UNCHANGED <<html, h, md, parts, offset, index, inLink, counts,
                   startIndex, endIndex>>
    /\ UNCHANGED bvars

NextResolve == Convert \/ Split \/ Iterate \/ ReturnStart \/ ReturnEnd \/ Slice

SpecResolve == InitResolve /\ [][NextResolve]_vars

----------------------------------------------------------------------------
(* assembleHighlights *)

\* !v for a string-valued slot
Falsy(v) == v = Undefined \/ v = ""

\* how a block of statements ends
Return(v) == [kind |-> "return", value |-> v]
Throw(e) == [kind |-> "throw", error |-> e]

getContentUrisForAnnotation(annotation) ==
    [i \in 1..Len(annotation.highlights) |-> annotation.highlights[i].uri]

knownSources ==
    << [url |-> "https://www.churchofjesuschrist.org/study/scriptures/bofm",
        title |-> "Book of Mormon",
        author |-> "The Church of Jesus Christ of Latter-day Saints",
        type |-> "books"],
       [url |-> "https://www.churchofjesuschrist.org/study/scriptures/nt",
        title |-> "New Testament",
        author |-> "The Church of Jesus Christ of Latter-day Saints",
        type |-> "books"],
       [url |-> "https://www.churchofjesuschrist.org/study/scriptures/ot",
        title |-> "Old Testament",
        author |-> "The Church of Jesus Christ of Latter-day Saints",
        type |-> "books"],
       [url |-> "https://www.churchofjesuschrist.org/study/scriptures/dc-testament",
        title |-> "Doctrine and Covenants",
        author |-> "The Church of Jesus Christ of Latter-day Saints",
        type |-> "books"],
       [url |-> "https://www.churchofjesuschrist.org/study/scriptures/pgp",
        title |-> "Pearl of Great Price",
        author |-> "The Church of Jesus Christ of Latter-day Saints",
        type |-> "books"] >>

uriToUrl(uri) == StudyRoot \o uri

getSourceInfo(annotation, contentObj) ==
    LET url == uriToUrl(annotation.uri)
        found == {i \in 1..Len(knownSources) : startsWith(url, knownSources[i].url)}
    IN  IF found # {}
        THEN knownSources[CHOOSE i \in found : \A j \in found : i <= j]
        ELSE [url |-> url,
              author |-> IF Falsy(contentObj.authorName)
                         THEN contentObj.publication
                         ELSE contentObj.authorName,
              title |-> contentObj.headline]

RECURSIVE flatContent(_)
\* contentObjs.flatMap(c => c.content)
flatContent(contentObjs) ==
    IF contentObjs = <<>> THEN <<>>
    ELSE Head(contentObjs).content \o flatContent(Tail(contentObjs))

\* lines 17-71: the body of the try block
tryBody(a, cts) ==
    LET id == a.annotationId
        highlights == a.highlights
        uris == getContentUrisForAnnotation(a)
    IN  IF Falsy(id) THEN Throw("Missing annotationId on annotation")
        ELSE IF \E i \in 1..Len(uris) : uris[i] \notin DOMAIN cts
        THEN Throw("Missing contents for URI")
        ELSE
          LET contentObjs == [i \in 1..Len(uris) |-> cts[uris[i]]]
              source == IF Len(contentObjs) >= 1
                        THEN getSourceInfo(a, contentObjs[1]) ELSE UndefinedObj
              sourceLink == IF Len(uris) >= 1 /\ ~Falsy(uris[1])
                            THEN uriToUrl(uris[1]) ELSE Undefined
              blocks == flatContent(contentObjs)
              mdParts == [i \in 1..Len(blocks) |->
                             htmlToMarkdownWithPlaceholders(blocks[i].markup)]
              fullMd == join([i \in 1..Len(mdParts) |->
                                 withoutPlaceholders(mdParts[i])],
                             Newline \o Newline)
          IN  \* line 43 reads h.startOffset of h = highlights[i]: a TypeError
              \* when mdParts is longer than highlights
              IF Len(mdParts) > Len(highlights)
              THEN Throw("TypeError: h is undefined")
              ELSE Return(
                  [id |-> id,
                   created |-> a.created,
                   updated |-> a.lastUpdated,
                   source |-> source,
                   fullMd |-> fullMd,
                   highlightMd |-> join([i \in 1..Len(mdParts) |->
                                            highlightOf(mdParts[i], highlights[i])],
                                        Newline \o Newline),
                   noteMd |-> Undefined,
                   tags |-> <<>>,
                   sourceLink |-> sourceLink])

\* a catch block that lets the error go on
catchBlockRethrows(a, err) == Throw(err)

\* lines 72-77: the catch block
catchBlock(a, err) == Return(UndefinedObj)

\* lines 15-77: the callback of annotations.map
mapCallback(a, cts) ==
    LET c == tryBody(a, cts)
    IN  IF c.kind = "throw" THEN catchBlock(a, c.error) ELSE c

\* line 78: h => !!h?.highlightMd
keeps(hl) == hl # UndefinedObj /\ hl.highlightMd # ""

----------------------------------------------------------------------------
(* Spec: assembleHighlights over a batch *)

MaxAnnotations == 2

UriBofm == "/scriptures/bofm/1-ne/3"
UriTalk == "/general-conference/2020/04/talk"
UriMoved == "/manual/moved"

FragOne ==
    [content |-> <<[markup |-> <<Text("ab cd")>>]>>,
     authorName |-> Undefined, publication |-> "Scriptures", headline |-> "1 Nephi 3"]
FragTwo ==
    [content |-> <<[markup |-> <<Text("ab cd")>>],
                   [markup |-> <<Text("p-q "), A("/x-y", "k")>>]>>,
     authorName |-> Undefined, publication |-> "Scriptures", headline |-> "1 Nephi 3"]
FragTalk ==
    [content |-> <<[markup |-> <<Text("see"), Sup, Text(" x y")>>]>>,
     authorName |-> "Speaker", publication |-> "Conference", headline |-> "Talk"]

ContentMaps ==
    { [u \in {UriBofm, UriTalk} |-> IF u = UriBofm THEN FragOne ELSE FragTalk],
      [u \in {UriBofm, UriTalk} |-> IF u = UriBofm THEN FragTwo ELSE FragTalk],
      [u \in {UriTalk} |-> FragTalk] }

Span(uri, s, e) == [uri |-> uri, startOffset |-> s, endOffset |-> e]

HighlightLists ==
    { <<>>,
      <<Span(UriBofm, 1, -1)>>,
      <<Span(UriBofm, 2, 2)>>,
      <<Span(UriBofm, MaxOffset, -1)>>,
      <<Span(UriBofm, 1, 1), Span(UriTalk, 2, 3)>>,
      <<Span(UriBofm, MaxOffset, -1), Span(UriTalk, MaxOffset, -1)>>,
      <<Span(UriMoved, 1, -1)>>,
      <<Span(UriTalk, 1, -1), Span(UriMoved, 1, 1)>> }

Annotation(id, uri, hls) ==
    [annotationId |-> id, uri |-> uri, highlights |-> hls,
     created |-> "2024-01-01", lastUpdated |-> "2024-02-02"]

Pool ==
    { Annotation("a1", uri, hls) : uri \in {UriBofm, UriTalk}, hls \in HighlightLists }
    \cup { Annotation(Undefined, UriBofm, <<Span(UriBofm, 1, -1)>>) }

ResolveIdle ==
    /\ html = <<>> /\ h = Span("", 0, 0) /\ md = "" /\ parts = <<>>
    /\ rpc = "idle" /\ offset = 0 /\ index = 0 /\ inLink = FALSE
    /\ counts = <<>> /\ startIndex = 0 /\ endIndex = 0 /\ highlightPart = ""

Init ==
    /\ ResolveIdle
    /\ annotations \in UNION {[1..n -> Pool] : n \in 0..MaxAnnotations}
    /\ contents \in ContentMaps
    /\ bpc = "map"
    /\ k = 0
    /\ mapped = <<>>
    /\ out = <<>>
    /\ escaped = FALSE

\* one call of the callback of annotations.map (lines 15-77); an exception
\* that leaves the callback leaves assembleHighlights
MapNext ==
    /\ bpc = "map"
    /\ k < Len(annotations)
    /\ LET c == mapCallback(annotations[k + 1], contents)
       IN  IF c.kind = "throw"
           THEN /\ escaped' = TRUE
                /\ bpc' = "done"
                /\ UNCHANGED <<k, mapped>>
           ELSE /\ mapped' = Append(mapped, c.value)
                /\ k' = k + 1
                /\ UNCHANGED <<escaped, bpc>>
    /\ UNCHANGED <<annotations, contents, out>>
    /\ UNCHANGED rvars

\* line 78: .filter(h => !!h?.highlightMd), and the return
Filter ==
    /\ bpc = "map"
    /\ k = Len(annotations)
    /\ out' = SelectSeq(mapped, keeps)
    /\ bpc' = "done"
    /\ UNCHANGED <<annotations, contents, k, mapped, escaped>>
    /\ UNCHANGED rvars

Next == MapNext \/ Filter

Spec == Init /\ [][Next]_vars

----------------------------------------------------------------------------
(* Properties of the resolution of one span (SpecResolve) *)

IsWordChar(s, i) == CharAt(s, i) \notin SeparatorClass

\* the positions where a word of s begins and ends: a word is a maximal run of
\* characters outside the separator class
WordStarts(s) ==
    {i \in 1..Len(s) : IsWordChar(s, i) /\ (i = 1 \/ ~IsWordChar(s, i - 1))}
WordEnds(s) ==
    {i \in 1..Len(s) : IsWordChar(s, i) /\ (i = Len(s) \/ ~IsWordChar(s, i + 1))}

\* the n-th smallest member of a set of numbers
Nth(S, n) == CHOOSE x \in S : Cardinality({y \in S : y <= x}) = n

\* the number of words of a text
TextWords(s) == Cardinality(WordStarts(s))

EndsWith(s, c) == s # "" /\ CharAt(s, Len(s)) = c

\* the tokens of one link [text](url): from the token that opens with "[" to
\* the next token that closes with ")"
LinkFirsts(tokens) == {i \in 1..Len(tokens) : startsWith(tokens[i], "[")}
LinkLast(tokens, f) ==
    CHOOSE l \in f..Len(tokens) :
        /\ EndsWith(tokens[l], ")")
        /\ \A j \in f..(l - 1) : ~EndsWith(tokens[j], ")")

\* the value of the word counter before token i is read
CountBefore(i) == IF i = 1 THEN 0 ELSE counts[i - 1]

\* the anchors of the block that are rendered as links, in order
IsRenderedLink(node) ==
    node.tag = "a" /\ node.href # "" /\ ~startsWith(node.href, "#")
RenderedLinks(nodes) == SelectSeq(nodes, IsRenderedLink)

\* index i cuts a link: the link's first token is before it, its last is not
CutsALink(tokens, i) ==
    \E f \in LinkFirsts(tokens) : f <= i /\ i < LinkLast(tokens, f)

\* the word count of the block with a link counting as one word: the word
\* tokens that are not a later token of a link
WordCountLinksAsOne(tokens) ==
    Cardinality({i \in 1..Len(tokens) :
        /\ tokens[i] # ""
        /\ ~isSeparator(tokens[i])
        /\ ~\E f \in LinkFirsts(tokens) : f < i /\ i <= LinkLast(tokens, f)})

IsPlain(nodes) == \A i \in 1..Len(nodes) : nodes[i].tag = "#text"

C4_OffsetsInclusive ==
    (/\ rpc = "done"
     /\ IsPlain(html)
     /\ md # "" /\ IsWordChar(md, 1)
     /\ 1 <= h.startOffset /\ h.startOffset <= h.endOffset
     /\ h.endOffset <= TextWords(md))
    => highlightPart = SubSeq(md, Nth(WordStarts(md), h.startOffset),
                                  Nth(WordEnds(md), h.endOffset))

\* C5 as stated: a start offset beyond the block's word count (a link and a
\* footnote marker counting as one word each) resolves to the empty text,
\* whatever the end offset.
C5_StartBeyondWordsIsEmpty ==
    (rpc = "done" /\ h.startOffset > WordCountLinksAsOne(parts))
    => highlightPart = ""

\* C8: the scenario; the block converts to the stated Markdown and offsets
\* (2, 4) extract exactly the stated text.
C8_Scenario ==
    (/\ rpc = "done"
     /\ html = ScenarioBlock
     /\ h.startOffset = 2 /\ h.endOffset = 4)
    => /\ md = "The quick " \o Galaxy
                \o "[brown fox](https://www.churchofjesuschrist.org/study/x)"
                \o Galaxy \o " jumps"
       /\ highlightPart =
              "quick [brown fox](https://www.churchofjesuschrist.org/study/x)"

\* C8 witness: the scenario has run to its end.
C8_Witness ==
    /\ rpc = "done"
    /\ html = ScenarioBlock
    /\ h.startOffset = 2 /\ h.endOffset = 4
    /\ startIndex = 1 /\ endIndex = 7

\* C9 as stated: neither the start index nor the end index falls between the
\* first and the last token of one link.
C9_LinkIndivisible ==
    rpc = "done" =>
        /\ ~CutsALink(parts, startIndex)
        /\ ~CutsALink(parts, endIndex)

\* C10 as stated: an empty token does not advance the word counter, and in a
\* block that begins with a separator end offset 1 resolves to an index past
\* the first word token, which is the third token.
C10_EmptyTokensNotCounted ==
    /\ rpc \in {"start", "end", "slice", "done"} =>
          \A i \in 1..Len(counts) :
              parts[i] = "" => counts[i] = CountBefore(i)
    /\ (rpc = "done" /\ Len(parts) >= 3 /\ parts[1] = "" /\ h.endOffset = 1)
          => endIndex >= 3

----------------------------------------------------------------------------
(* Properties of assembleHighlights (Spec) *)

LacksId(a) == Falsy(a.annotationId)
RefersToMissingContent(a) ==
    \E i \in 1..Len(a.highlights) : a.highlights[i].uri \notin DOMAIN contents

\* what assembleHighlights([a], contents) returns
Alone(a) ==
    LET c == mapCallback(a, contents)
    IN  IF c.kind = "return" /\ keeps(c.value) THEN <<c.value>> ELSE <<>>

RECURSIVE AloneInOrder(_)
AloneInOrder(as) ==
    IF as = <<>> THEN <<>> ELSE Alone(Head(as)) \o AloneInOrder(Tail(as))

\* C1: no exception leaves assembleHighlights; an annotation without
\* annotationId or with a URI that contents lacks contributes no record; the
\* result is, in input order, what each annotation contributes when it is
\* processed alone.
C1_BatchIsolatesFailures ==
    bpc = "done" =>
        /\ ~escaped
        /\ out = AloneInOrder(annotations)
        /\ \A i \in 1..Len(annotations) :
              (LacksId(annotations[i]) \/ RefersToMissingContent(annotations[i]))
                  => /\ mapped[i] = UndefinedObj
                     /\ Alone(annotations[i]) = <<>>

\* C1 witness: a batch of two, the first without identifier or with a URI
\* that has no content, has returned exactly the record of the second.
C1_Witness ==
    /\ bpc = "done"
    /\ Len(annotations) = 2
    /\ \/ LacksId(annotations[1])
       \/ (~LacksId(annotations[1]) /\ RefersToMissingContent(annotations[1]))
    /\ Len(out) = 1
    /\ out[1] = mapped[2]

\* C2 as stated: every emitted record's highlightMd holds at least one
\* character of resolved text (an annotation whose spans all resolve to the
\* empty text is dropped).
C2_EmittedHighlightHasText ==
    bpc = "done" =>
        \A i \in 1..Len(out) : trim(out[i].highlightMd) # ""

\* C6 as stated: an annotation with an identifier whose URIs all resolve is
\* not dropped because a fragment holds several blocks.
C6_SpanAlignedWithFragment ==
    bpc = "done" =>
        \A i \in 1..Len(annotations) :
            (~LacksId(annotations[i]) /\ ~RefersToMissingContent(annotations[i]))
                => mapped[i] # UndefinedObj

\* C7 as stated: the citation of a record is the one of the first highlight
\* span's URI, the URI of sourceLink, whatever the annotation's uri holds.
C7_SourceFromFirstSpanUri ==
    bpc = "done" =>
        \A i \in 1..Len(annotations) :
            (mapped[i] # UndefinedObj /\ annotations[i].highlights # <<>>)
                => LET first == annotations[i].highlights[1].uri
                   IN  /\ mapped[i].sourceLink = uriToUrl(first)
                       /\ mapped[i].source =
                              getSourceInfo([uri |-> first], contents[first])

====
